---- MODULE Spec2Model ----
(***************************************************************************)
(* Model of the browser-history MCP server: the CallTool / ListTools       *)
(* request handlers of src/src/mcp-server.js (lines 1-432) and the Chrome  *)
(* data provider appended to the same file (lines 433-897).                *)
(*                                                                         *)
(* The model follows Node's scheduling: a handler runs synchronously up to *)
(* its first await; promise continuations are microtasks, which run before *)
(* the next macrotask (a library callback, a new request).  File-system    *)
(* checks and the sqlite3 operations complete in macrotasks.               *)
(***************************************************************************)
EXTENDS Integers, Sequences, FiniteSets, TLC

\* ------------------------------------------------------------------ bounds
\* Number of request slots (requests that may be in flight together).
MaxCalls == 2
\* Number of candidate profile directories of the platform (CHROME_PATHS[platform]).
NumPaths == 2
\* Time scale of the model: the source's 60*60 s per hour, 1000 ms per s and
\* 1000 us per ms are scaled down so that timestamps stay small integers.
SecPerHour == 2
MsPerSec == 2
UsPerMs == 2
\* Hours between 1601-01-01 and 1970-01-01 in the model's scale.
EpochHours == 400
\* Date.now() of the model, in hours since 1970-01-01.
NowHours == 300
\* Number of URL rows of the store that have no visit, beyond the two URLs
\* of the model: enough for a search to match more than fifty rows.
ExtraUrls == 51
\* Number of direct calls of locateChromeProfile that are followed.
MaxLocates == 2
\* Number of ListTools responses that are kept.
MaxLists == 2

\* ------------------------------------------------------- program constants
DefaultSearchLimit == 100
SchemaSearchLimit == 50
DefaultHours == 24
DefaultRecentLimit == 50
SchemaMinHours == 1
SchemaMaxHours == 168

Calls == 1..MaxCalls
Paths == 1..NumPaths

\* -------------------------------------------------------------- JS values
\* An optional value: <<>> is undefined/null, <<v>> is the value v.
Absent == <<>>
Some(v) == <<v>>
IsAbsent(x) == Len(x) = 0
Get(x) == x[1]

\* A JS number that may be NaN.
NaN == [nan |-> TRUE, v |-> 0]
Num(n) == [nan |-> FALSE, v |-> n]
NumSub(a, b) == IF a.nan \/ b.nan THEN NaN ELSE Num(a.v - b.v)
NumMul(a, k) == IF a.nan THEN NaN ELSE Num(a.v * k)

\* Strings are sequences of characters.
Space == " "
LowerCase(ch) == IF ch = "G" THEN "g" ELSE ch
RECURSIVE trim(_)
trim(s) ==
  IF s = <<>> THEN s
  ELSE IF Head(s) = Space THEN trim(Tail(s))
  ELSE IF s[Len(s)] = Space THEN trim(SubSeq(s, 1, Len(s) - 1))
  ELSE s
\* SQL LIKE '%p%': case-insensitive (ASCII) substring match.
Like(text, p) ==
  \E i \in 0..(Len(text) - Len(p)) :
    \A j \in 1..Len(p) : LowerCase(text[i + j]) = LowerCase(p[j])

\* ------------------------------------------------------------------ time
MsPerHour == SecPerHour * MsPerSec
UsPerSec == MsPerSec * UsPerMs
\* Date.now()
DateNow == NowHours * MsPerHour
\* new Date('1601-01-01').getTime()
Epoch1601Ms == 0 - (EpochHours * MsPerHour)
\* strftime('%s', '1601-01-01')
Epoch1601Sec == 0 - (EpochHours * SecPerHour)
\* (t - new Date('1601-01-01').getTime()) * 1000 : ms since 1970 to Chrome us
ChromeTimestamp(ms) == (ms - Epoch1601Ms) * UsPerMs
\* datetime(t/1000000 + strftime('%s','1601-01-01'), 'unixepoch') : Chrome us
\* to whole seconds since 1970 (SQLite integer division truncates)
SqlDatetime(us) == (us \div UsPerSec) + Epoch1601Sec

\* Date strings of the inputs.  A valid YYYY-MM-DD string is the record of its
\* day number; anything else does not parse.
DateStr(day) == [valid |-> TRUE, day |-> day]
BadDate == [valid |-> FALSE, day |-> 0]
\* new Date(s + 'T00:00:00').getTime() / new Date(s + 'T23:59:59.999').getTime()
DateStartOfDay(s) == IF s.valid THEN Num(s.day * 24 * MsPerHour) ELSE NaN
DateEndOfDay(s) == IF s.valid THEN Num((s.day + 1) * 24 * MsPerHour - 1) ELSE NaN

\* ------------------------------------------------------------- the store
\* The urls table without its visit statistics.  hostname is what
\* new URL(url).hostname yields, absent when the URL does not parse.
\* The first two rows are the URLs the visits refer to; the further rows are
\* URLs Chrome keeps without a visit (visit_count = 0, last_visit_time = 0).
Digit == << "0", "1", "2", "3", "4", "5", "6", "7", "8", "9" >>
ExtraUrl(n) == << "/", Digit[((n \div 10) % 10) + 1], Digit[(n % 10) + 1] >>
UrlTable ==
  << [id |-> 1, url |-> <<"g", "i", "t", ".", "i", "o">>,
      title |-> Some(<<"G", "i", "t">>), hostname |-> Some(<<"g", "i", "t", ".", "i", "o">>)],
     [id |-> 2, url |-> <<"x">>, title |-> Absent, hostname |-> Absent] >>
  \o [n \in 1..ExtraUrls |->
        [id |-> n + 2, url |-> ExtraUrl(n), title |-> Absent, hostname |-> Absent]]
UrlIds == DOMAIN UrlTable

\* The visit records a store may hold: the first URL visited one hour ago
\* (plus a fraction of a second) and 180 hours ago; the second URL has no
\* visit.
VisitCandidates ==
  { [url |-> 1, visit_time |-> ChromeTimestamp(DateNow - 1 * MsPerHour) + 1],
    [url |-> 1, visit_time |-> ChromeTimestamp(DateNow - 180 * MsPerHour)] }
Stores == SUBSET VisitCandidates

SetMax(S) == CHOOSE m \in S : \A o \in S : o <= m
SetMin(S) == CHOOSE m \in S : \A o \in S : m <= o
Minimum(a, b) == IF a <= b THEN a ELSE b

VisitsOf(vs, id) == {v \in vs : v.url = id}
\* A row of the urls table: Chrome keeps visit_count and last_visit_time
\* with the visits of the URL.
UrlRow(vs, id) ==
  [id |-> id, url |-> UrlTable[id].url, title |-> UrlTable[id].title,
   visit_count |-> Cardinality(VisitsOf(vs, id)),
   last_visit_time |->
     IF VisitsOf(vs, id) = {} THEN 0
     ELSE SetMax({v.visit_time : v \in VisitsOf(vs, id)})]
UrlRows(vs) == {UrlRow(vs, id) : id \in UrlIds}

\* ORDER BY <f> DESC.  Rows with equal keys come in an order SQLite does not
\* specify: the visits of the model have distinct times, and the rows without
\* a visit, which all have last_visit_time 0, come in one fixed order (only
\* their number is observed).
RECURSIVE OrderByDesc(_, _)
OrderByDesc(S, f) ==
  IF S = {} THEN <<>>
  ELSE LET m == CHOOSE r \in S : \A o \in S : o[f] <= r[f]
       IN <<m>> \o OrderByDesc(S \ {m}, f)
\* LIMIT n (a negative n is no limit)
SqlLimit(rows, n) ==
  IF n < 0 THEN rows ELSE SubSeq(rows, 1, Minimum(n, Len(rows)))

\* A bound parameter compared with a column: sqlite3 binds NaN as NULL, and
\* a comparison with NULL selects no row.
GreaterEq(col, p) == ~p.nan /\ col >= p.v
LessEq(col, p) == ~p.nan /\ col <= p.v

\* The SQL statements, as records of their parameters.
SearchRows(vs, stmt) ==
  LET match(r) ==
        /\ IsAbsent(stmt.like) \/ Like(r.url, Get(stmt.like))
                               \/ (~IsAbsent(r.title) /\ Like(Get(r.title), Get(stmt.like)))
        /\ IsAbsent(stmt.start) \/ GreaterEq(r.last_visit_time, Get(stmt.start))
        /\ IsAbsent(stmt.end) \/ LessEq(r.last_visit_time, Get(stmt.end))
      row(r) == [url |-> r.url, title |-> r.title, visit_count |-> r.visit_count,
                 last_visit_time |-> r.last_visit_time,
                 last_visit_date |-> SqlDatetime(r.last_visit_time),
                 visit_time |-> r.last_visit_time,
                 visit_date |-> SqlDatetime(r.last_visit_time)]
  IN SqlLimit(OrderByDesc({row(r) : r \in {u \in UrlRows(vs) : match(u)}},
                          "last_visit_time"), stmt.limit)

RecentRows(vs, stmt) ==
  LET row(v) == LET r == UrlRow(vs, v.url)
                IN [url |-> r.url, title |-> r.title, visit_count |-> r.visit_count,
                    last_visit_time |-> r.last_visit_time,
                    last_visit_date |-> SqlDatetime(r.last_visit_time),
                    visit_time |-> v.visit_time,
                    visit_date |-> SqlDatetime(v.visit_time)]
  IN SqlLimit(OrderByDesc({row(v) : v \in {w \in vs : w.visit_time >= stmt.since}},
                          "visit_time"), stmt.limit)

\* The aggregate row: SUM, MIN and MAX over no rows are NULL.
StatsRows(vs) ==
  LET rs == {r \in UrlRows(vs) : r.visit_count > 0}
      dates == {SqlDatetime(r.last_visit_time) : r \in rs}
      RECURSIVE Sum(_)
      Sum(S) == IF S = {} THEN 0
                ELSE LET r == CHOOSE x \in S : TRUE IN r.visit_count + Sum(S \ {r})
  IN << [total_urls |-> Cardinality(rs),
         total_visits |-> IF rs = {} THEN Absent ELSE Some(Sum(rs)),
         earliest_visit |-> IF rs = {} THEN Absent ELSE Some(SetMin(dates)),
         latest_visit |-> IF rs = {} THEN Absent ELSE Some(SetMax(dates))] >>

\* db.all(query, params): the rows the statement selects.  Every statement
\* of the program is a SELECT.
Execute(vs, stmt) ==
  CASE stmt.kind = "search" -> SearchRows(vs, stmt)
    [] stmt.kind = "recent" -> RecentRows(vs, stmt)
    [] stmt.kind = "stats" -> StatsRows(vs)

\* The hostname new URL(url) yields, absent when the constructor throws.
Hostname(url) ==
  LET known == {i \in UrlIds : UrlTable[i].url = url}
  IN IF known = {} THEN Absent ELSE UrlTable[CHOOSE i \in known : TRUE].hostname

\* --------------------------------------------------------------- requests
\* The six registered tools, in the order ListTools returns them.
\* Mutant: the last tool is listed under another name.
ToolNamesRenamed ==
  << "search_history", "get_bookmarks", "analyze_browsing_patterns",
     "export_data", "get_recent_browsing", "history_stats" >>
ToolNames ==
  << "search_history", "get_bookmarks", "analyze_browsing_patterns",
     "export_data", "get_recent_browsing", "get_history_stats" >>
RegisteredNames == {ToolNames[i] : i \in DOMAIN ToolNames}
\* The properties of the inputSchema of each tool, in the same order.
ToolProperties ==
  << {"query", "start_date", "end_date", "limit"},
     {"folder", "include_urls"},
     {"timeframe", "include_domains"},
     {"format", "include_history", "include_bookmarks"},
     {"hours", "limit", "include_visit_details"},
     {} >>
\* The tools array the ListTools handler returns.
ToolDescriptors ==
  [i \in DOMAIN ToolNames |->
     [name |-> ToolNames[i],
      inputSchema |-> [type |-> "object", properties |-> ToolProperties[i]]]]
UnknownNames == {"delete_history", "Search_History"}

\* request.params.arguments: a mapping (an omitted argument is Absent), or
\* no mapping at all (present = FALSE: the member is optional in the protocol).
Arguments(q, sd, ed, l, h, d, tf, fmt) ==
  [present |-> TRUE, query |-> q, start_date |-> sd, end_date |-> ed, limit |-> l,
   hours |-> h, include_visit_details |-> d, timeframe |-> tf, format |-> fmt]
EmptyArguments ==
  Arguments(Absent, Absent, Absent, Absent, Absent, Absent, Absent, Absent)
NoArguments == [EmptyArguments EXCEPT !.present = FALSE]

Git == <<"g", "i", "t">>
Queries == {Absent, Some(<<>>), Some(<<Space>>), Some(Git)}
StartDates == {Absent, Some(DateStr(6)), Some(BadDate)}
EndDates == {Absent, Some(DateStr(10))}
Limits == {Absent, Some(0), Some(1), Some(SchemaSearchLimit)}
HoursValues == {Absent, Some(0), Some(SchemaMinHours), Some(SchemaMaxHours), Some(200)}

\* search_history: every query with every start date, and the end dates and
\* limits with and without a query.
SearchRequests ==
  { [name |-> "search_history",
     args |-> [EmptyArguments EXCEPT !.query = q, !.start_date = sd]] :
      q \in Queries, sd \in StartDates }
  \cup
  { [name |-> "search_history",
     args |-> [EmptyArguments EXCEPT !.query = q, !.end_date = ed, !.limit = l]] :
      q \in {Absent, Some(Git)}, ed \in EndDates, l \in Limits }
\* get_recent_browsing: every hours value with and without a limit, and the
\* call without visit details.
RecentRequests ==
  { [name |-> "get_recent_browsing",
     args |-> [EmptyArguments EXCEPT !.hours = h, !.limit = l]] :
      h \in HoursValues, l \in {Absent, Some(1)} }
  \cup
  { [name |-> "get_recent_browsing",
     args |-> [EmptyArguments EXCEPT !.include_visit_details = Some(FALSE)]] }
PlainRequests ==
  { [name |-> n, args |-> a] :
      n \in RegisteredNames \cup UnknownNames, a \in {EmptyArguments, NoArguments} }
Requests == SearchRequests \cup RecentRequests \cup PlainRequests
\* The requests that may overlap with another one.
OverlapRequests ==
  { [name |-> n, args |-> EmptyArguments] :
      n \in {"get_history_stats", "get_recent_browsing", "delete_history"} }
NoRequest == [name |-> "", args |-> NoArguments]

\* x || d for a number and for a string
OrNumber(x, d) == IF IsAbsent(x) \/ Get(x) = 0 THEN d ELSE Get(x)
OrString(x, d) == IF IsAbsent(x) \/ Get(x) = <<>> THEN d ELSE Get(x)

\* ---------------------------------------------------------- data provider
NoStatement ==
  [kind |-> "none", like |-> Absent, start |-> Absent, end |-> Absent,
   since |-> 0, limit |-> 0]

\* searchHistory(searchQuery, {startDate, endDate, limit}): the statement it
\* passes to queryHistory.
searchHistory(searchQuery, startDate, endDate, limit) ==
  LET hasSearchQuery == searchQuery # <<>> /\ Len(trim(searchQuery)) > 0
  IN [NoStatement EXCEPT
        !.kind = "search",
        !.like = IF hasSearchQuery THEN Some(searchQuery) ELSE Absent,
        !.start = IF IsAbsent(startDate) THEN Absent
                  ELSE Some(NumMul(NumSub(DateStartOfDay(Get(startDate)),
                                          Num(Epoch1601Ms)), UsPerMs)),
        !.end = IF IsAbsent(endDate) THEN Absent
                ELSE Some(NumMul(NumSub(DateEndOfDay(Get(endDate)),
                                        Num(Epoch1601Ms)), UsPerMs)),
        !.limit = limit]

\* getRecentBrowsing(hours, limit, includeDetails): the lower bound it
\* computes and the statement it passes to queryHistory.
RecentSince(hours) == ChromeTimestamp(DateNow - (hours * MsPerHour))
getRecentBrowsing(hours, limit) ==
  [NoStatement EXCEPT !.kind = "recent", !.since = RecentSince(hours), !.limit = limit]

\* getHistoryStats()
getHistoryStats == [NoStatement EXCEPT !.kind = "stats"]

Untitled == <<"U", "n", "t", "i", "t", "l", "e", "d">>
\* Mutant: the entry reports the URL's last visit instead of the visit.
ProcessedResultsLastVisit(rows, includeDetails) ==
  [i \in DOMAIN rows |->
     [url |-> rows[i].url,
      title |-> IF IsAbsent(rows[i].title) THEN Untitled ELSE Get(rows[i].title),
      last_visit_date |-> rows[i].last_visit_date,
      visit_count |-> rows[i].visit_count,
      domain |-> IF ~includeDetails THEN Absent
                 ELSE IF IsAbsent(Hostname(rows[i].url)) THEN Some(<<"U", "n", "k">>)
                 ELSE Hostname(rows[i].url)]]
\* results.map(...) of getRecentBrowsing
ProcessedResults(rows, includeDetails) ==
  [i \in DOMAIN rows |->
     [url |-> rows[i].url,
      title |-> IF IsAbsent(rows[i].title) THEN Untitled ELSE Get(rows[i].title),
      last_visit_date |-> rows[i].visit_date,
      visit_count |-> rows[i].visit_count,
      domain |-> IF ~includeDetails THEN Absent
                 ELSE IF IsAbsent(Hostname(rows[i].url)) THEN Some(<<"U", "n", "k">>)
                 ELSE Hostname(rows[i].url)]]

\* -------------------------------------------------------------- bookmarks
\* The nodes of the Bookmarks file.  children is absent on a url node and
\* may be absent on a folder.
DateAdded == ChromeTimestamp(DateNow)
UrlNode(name, url) ==
  [type |-> "url", name |-> name, url |-> url, date_added |-> DateAdded,
   children |-> Absent]
FolderNode(name, children) ==
  [type |-> "folder", name |-> name, url |-> "", date_added |-> DateAdded,
   children |-> Some(children)]
BareFolder(name) == [FolderNode(name, <<>>) EXCEPT !.children = Absent]
X == UrlNode("X", "http://x")
Y == UrlNode("Y", "http://y")

\* The lists of at most two children taken from S.
ChildLists(S) ==
  {<<>>} \cup {<< a >> : a \in S} \cup {<< a, b >> : a \in S, b \in S}
\* The nodes by the depth of the folders in them.
Nodes0 == {X}
Nodes1 == Nodes0 \cup {BareFolder("Work")}
                 \cup {FolderNode("Work", ch) : ch \in ChildLists(Nodes0)}
Nodes2 == Nodes0 \cup {BareFolder("Work")}
                 \cup {FolderNode("Work", ch) : ch \in ChildLists(Nodes1)}

\* The parsed file: roots maps the root names, in the order of the file, to
\* the root nodes; an entry of roots that is no node has no children.
BookmarksFile(barChildren, other) ==
  [roots |-> Some(<< [name |-> "bookmark_bar",
                      data |-> FolderNode("Bookmarks bar", barChildren)],
                     [name |-> "other", data |-> other] >>)]
BookmarkFiles ==
  {BookmarksFile(ch, o) : ch \in ChildLists(Nodes2),
                          o \in {BareFolder("Other"), FolderNode("Other", << Y >>)}}
  \cup {[roots |-> Absent]}
\* One url X in the folder Work of the bookmark bar.
ChromeBookmarks == BookmarksFile(<< FolderNode("Work", << X >>) >>, BareFolder("Other"))

\* Mutant: the folder path is not extended on the way down.
NewFolderPathKept(folderPath, name) == IF folderPath # "" THEN folderPath ELSE name
\* folderPath ? `${folderPath}/${child.name}` : child.name
NewFolderPath(folderPath, name) ==
  IF folderPath # "" THEN folderPath \o "/" \o name ELSE name

\* extractBookmarks(bookmarkNode, folderPath); ExtractChildren is its loop
\* over bookmarkNode.children from the i-th child on.
RECURSIVE extractBookmarks(_, _), ExtractChildren(_, _, _)
ExtractChildren(children, i, folderPath) ==
  IF i > Len(children) THEN <<>>
  ELSE LET child == children[i]
           pushed ==
             IF child.type = "url"
             THEN << [title |-> child.name, url |-> child.url,
                      dateAdded |-> child.date_added \div UsPerMs,
                      folder |-> IF folderPath # "" THEN folderPath ELSE "Root"] >>
             ELSE IF child.type = "folder"
             THEN extractBookmarks(child, NewFolderPath(folderPath, child.name))
             ELSE <<>>
       IN pushed \o ExtractChildren(children, i + 1, folderPath)
extractBookmarks(bookmarkNode, folderPath) ==
  IF IsAbsent(bookmarkNode.children) THEN <<>>
  ELSE ExtractChildren(Get(bookmarkNode.children), 1, folderPath)

\* The loop of getBookmarks over Object.entries(bookmarksData.roots), from
\* the i-th root on.
RECURSIVE ExtractRoots(_, _)
ExtractRoots(roots, i) ==
  IF i > Len(roots) THEN <<>>
  ELSE (IF IsAbsent(roots[i].data.children) THEN <<>>
        ELSE extractBookmarks(roots[i].data, roots[i].name))
       \o ExtractRoots(roots, i + 1)
\* What getBookmarks() returns for the parsed file.
AllBookmarksOf(data) ==
  IF IsAbsent(data.roots) THEN <<>> ELSE ExtractRoots(Get(data.roots), 1)

\* ------------------------------------------------------------ tool results
\* A ToolResult: { content: [ { type: 'text', text } ] }.  The text is kept
\* as a record of what it reports.
Text(tag, message, entries, limited) ==
  [tag |-> tag, message |-> message, entries |-> entries, limited |-> limited]
ToolResult(text) ==
  [kind |-> "result", code |-> "", content |-> << [type |-> "text", text |-> text] >>]
\* A protocol fault: the handler's promise rejects and the SDK answers with
\* an error response.
Fault(code) == [kind |-> "fault", code |-> code, content |-> <<>>]

RequireQueryOrDates ==
  ToolResult(Text("Error", "Please provide either a search query or a date range (or both)",
                  <<>>, FALSE))
\* Mutant: the catch block throws the error on.
ErrorRethrown(prefix, message) == Fault("InternalError")
\* The result a catch block of the handler returns.
ErrorResult(prefix, message) == ToolResult(Text(prefix, message, <<>>, FALSE))
TypeErrorMessage == "Cannot read properties of undefined"
NullErrorMessage == "Cannot read properties of null"
NotFoundMessage == "Chrome installation not found"

\* The effective arguments of the handlers.
SearchLimit(args) == OrNumber(args.limit, DefaultSearchLimit)
RecentHours(args) == OrNumber(args.hours, DefaultHours)
RecentLimit(args) == OrNumber(args.limit, DefaultRecentLimit)
IncludeDetails(args) ==
  IsAbsent(args.include_visit_details) \/ Get(args.include_visit_details) # FALSE

\* What the CallTool handler does before its first await: it returns or
\* throws (done, with the outcome), or it calls the data provider (the
\* statement that reaches queryHistory).
Returns(outcome) == [done |-> TRUE, outcome |-> outcome, stmt |-> NoStatement]
Awaits(stmt) == [done |-> FALSE, outcome |-> Fault(""), stmt |-> stmt]

\* Mutant: the negation of the last operand is lost.
NoQueryNoDatesSlip(query, startDate, endDate) ==
  query = <<>> /\ IsAbsent(startDate) /\ ~IsAbsent(endDate)

\* !query && !startDate && !endDate
NoQueryNoDates(query, startDate, endDate) ==
  query = <<>> /\ IsAbsent(startDate) /\ IsAbsent(endDate)

\* Mutant: the default case answers with a text instead of throwing.
UnknownToolReturnsText(name) ==
  Returns(ToolResult(Text("Error", "Unknown tool", <<>>, FALSE)))

\* default: throw new McpError(ErrorCode.MethodNotFound, ...)
UnknownTool(name) == Returns(Fault("MethodNotFound"))

\* case 'search_history', up to the await of chromeAnalyzer.searchHistory
search_history(args) ==
  IF ~args.present
  THEN Returns(ErrorResult("Error searching history", TypeErrorMessage))
  ELSE LET query == OrString(args.query, <<>>)
           startDate == args.start_date
           endDate == args.end_date
           limit == SearchLimit(args)
       IN IF NoQueryNoDates(query, startDate, endDate)
          THEN Returns(RequireQueryOrDates)
          ELSE Awaits(searchHistory(query, startDate, endDate, limit))

\* case 'get_bookmarks'
get_bookmarks(args) ==
  Returns(ToolResult(Text("Placeholder", "Retrieving bookmarks", <<>>, FALSE)))

\* Mutant: the timeframe is used without its default.
analyze_requires_timeframe(args) ==
  IF ~args.present \/ IsAbsent(args.timeframe) THEN Returns(Fault("InternalError"))
  ELSE Returns(ToolResult(Text("Placeholder", "Analyzing browsing patterns", <<>>, FALSE)))

\* case 'analyze_browsing_patterns': args.timeframe || 'week' outside any try
analyze_browsing_patterns(args) ==
  IF ~args.present THEN Returns(Fault("InternalError"))
  ELSE Returns(ToolResult(Text("Placeholder", "Analyzing browsing patterns", <<>>, FALSE)))

\* case 'export_data': args.format || 'json' outside any try
export_data(args) ==
  IF ~args.present THEN Returns(Fault("InternalError"))
  ELSE Returns(ToolResult(Text("Placeholder", "Exporting data", <<>>, FALSE)))

\* case 'get_recent_browsing', up to the await of chromeAnalyzer.getRecentBrowsing
get_recent_browsing(args) ==
  IF ~args.present
  THEN Returns(ErrorResult("Error retrieving recent browsing activity", TypeErrorMessage))
  ELSE Awaits(getRecentBrowsing(RecentHours(args), RecentLimit(args)))

\* case 'get_history_stats', up to the await of chromeAnalyzer.getHistoryStats
get_history_stats(args) == Awaits(getHistoryStats)

\* switch (name)
CallToolSync(name, args) ==
  CASE name = "search_history" -> search_history(args)
    [] name = "get_bookmarks" -> get_bookmarks(args)
    [] name = "analyze_browsing_patterns" -> analyze_browsing_patterns(args)
    [] name = "export_data" -> export_data(args)
    [] name = "get_recent_browsing" -> get_recent_browsing(args)
    [] name = "get_history_stats" -> get_history_stats(args)
    [] OTHER -> UnknownTool(name)

\* What the handler does when the promise it awaits settles: the result it
\* formats from the rows, or the result of its catch block.
CallToolResume(name, args, p) ==
  CASE name = "search_history" ->
         IF p.st = "rejected" THEN ErrorResult("Error searching history", p.err)
         ELSE ToolResult(Text(
                IF OrString(args.query, <<>>) # <<>> THEN "Search results"
                                                      ELSE "Browsing history",
                "",
                [i \in DOMAIN p.rows |->
                   [url |-> p.rows[i].url,
                    title |-> IF IsAbsent(p.rows[i].title) THEN Untitled
                              ELSE Get(p.rows[i].title),
                    last_visit_date |-> p.rows[i].last_visit_date,
                    visit_count |-> p.rows[i].visit_count,
                    domain |-> Hostname(p.rows[i].url)]],
                Len(p.rows) # 0 /\ Len(p.rows) = SearchLimit(args)))
    [] name = "get_recent_browsing" ->
         IF p.st = "rejected"
         THEN ErrorResult("Error retrieving recent browsing activity", p.err)
         ELSE LET recentBrowsing == ProcessedResults(p.rows, IncludeDetails(args))
              IN ToolResult(Text("Recent browsing activity", "", recentBrowsing,
                                 Len(recentBrowsing) # 0
                                   /\ Len(recentBrowsing) = RecentLimit(args)))
    [] name = "get_history_stats" ->
         IF p.st = "rejected" THEN ErrorResult("Error getting history statistics", p.err)
         ELSE LET stats == p.rows[1]
              IN \* stats.total_visits.toLocaleString() throws on null
                 IF IsAbsent(stats.total_visits)
                 THEN ErrorResult("Error getting history statistics", NullErrorMessage)
                 ELSE ToolResult(Text("Chrome History Database Statistics", "",
                                      <<stats>>, FALSE))

\* ------------------------------------------------------------------ state
VARIABLES
  fs,                 \* the candidate profile directories on disk
  visits,             \* the visit records of the History store
  wrote,              \* whether the server has written to the store or the profile
  chromeProfilePath,  \* module state: the cached profile directory, 0 is null
  historyDbPath,      \* module state: the cached path of the History store
  bookmarksPath,      \* module state: the cached path of the Bookmarks file
  req,                \* per request slot: the CallTool request
  pc,                 \* per request slot: where the call stands
  scan,               \* per request slot: the fs.access locateChromeProfile awaits
  statement,          \* per request slot: the statement passed to queryHistory
  provider,           \* per request slot: whether the data provider was invoked
  handle,             \* per request slot: the sqlite3 handle of queryHistory
  promise,            \* per request slot: the promise the handler awaits
  outcomes,           \* per request slot: the responses sent for the request
  failedBefore,       \* whether the data provider failed in an earlier request
  located,            \* what the direct calls of locateChromeProfile returned, in order
  bookmarksData,      \* the content of the Bookmarks file (parsed JSON)
  allBookmarks,       \* per request slot: what a call of getBookmarks came to
  listed              \* the ListTools responses so far, each with failedBefore

vars ==
  << fs, visits, wrote, chromeProfilePath, historyDbPath, bookmarksPath, req, pc, scan,
     statement, provider, handle, promise, outcomes, failedBefore, located,
     bookmarksData, allBookmarks, listed >>

\* A profile directory: missing or inaccessible, a directory holding neither
\* file, one holding Bookmarks only, or one holding the History store.
FsStates == {"none", "empty", "bookmarks", "history"}
DirAccessible(d) == d # "none"
HasHistory(d) == d = "history"
\* Mutant: a directory counts only when it holds the History store.
HasBookmarksWithHistory(d) == d = "history"
HasBookmarks(d) == d \in {"bookmarks", "history"}

\* Mutant: the file is always taken from the first candidate directory.
PathJoinFirst(dir, name) == [dir |-> 1, file |-> name]
\* path.join(chromePath, name)
PathJoin(dir, name) == [dir |-> dir, file |-> name]
NullPath == [dir |-> 0, file |-> ""]

\* The mode queryHistory opens the store with.
OPEN_READWRITE_CREATE == "OPEN_READWRITE | OPEN_CREATE"
OPEN_READONLY == "OPEN_READONLY"
\* Mutant: the store is opened with the library's default mode.
OpenModeDefault == OPEN_READWRITE_CREATE
OpenMode == OPEN_READONLY

NoHandle == [path |-> NullPath, mode |-> "", st |-> "none", cb |-> FALSE]
NoScan == [i |-> 0, stage |-> "", ok |-> FALSE]
NoPromise == [st |-> "none", err |-> "", rows |-> <<>>, jobs |-> 0]
PendingPromise == [NoPromise EXCEPT !.st = "pending"]

\* resolve/reject of a promise: the first call settles it and schedules the
\* continuation of the awaiting handler; later calls do nothing.
\* Mutant: every resolve/reject call settles and schedules the continuation.
SettleEveryCall(p, st, err, rows) ==
  [st |-> st, err |-> err, rows |-> rows, jobs |-> p.jobs + 1]
Settle(p, st, err, rows) ==
  IF p.st = "pending"
  THEN [st |-> st, err |-> err, rows |-> rows, jobs |-> p.jobs + 1]
  ELSE p
resolve(p, rows) == Settle(p, "fulfilled", "", rows)
reject(p, err) == Settle(p, "rejected", err, <<>>)

\* A call of locateChromeProfile made directly, not by ensureInitialized.
LocateRequest == [name |-> "locateChromeProfile", args |-> NoArguments]
DirectCall(c) == req[c] = LocateRequest
\* What a direct call that throws the not-found error leaves in located.
NotFound == 0

\* A call of the exported getBookmarks() (no target folder).
BookmarksRequest == [name |-> "getBookmarks", args |-> NoArguments]
BookmarksCall(c) == req[c] = BookmarksRequest
\* What a call of getBookmarks came to: nothing yet, the array it returned,
\* or the error it threw.
NoBookmarks == [st |-> "none", list |-> <<>>, err |-> ""]
Returned(list) == [st |-> "returned", list |-> list, err |-> ""]
Thrown(err) == [st |-> "thrown", list |-> <<>>, err |-> err]

\* Promise continuations run before the next macrotask.
MicrotaskPending ==
  \E c \in Calls : pc[c] \in {"entry", "exec"} \/ promise[c].jobs > 0
AllIdle == \A c \in Calls : pc[c] = "idle"
FirstIdle(c) == pc[c] = "idle" /\ \A d \in Calls : d < c => pc[d] # "idle"

\* The state after the module is loaded, whatever the profile holds.
InitServer ==
  /\ wrote = FALSE
  /\ chromeProfilePath = 0
  /\ historyDbPath = NullPath
  /\ bookmarksPath = NullPath
  /\ req = [c \in Calls |-> NoRequest]
  /\ pc = [c \in Calls |-> "idle"]
  /\ scan = [c \in Calls |-> NoScan]
  /\ statement = [c \in Calls |-> NoStatement]
  /\ provider = [c \in Calls |-> FALSE]
  /\ handle = [c \in Calls |-> NoHandle]
  /\ promise = [c \in Calls |-> NoPromise]
  /\ outcomes = [c \in Calls |-> <<>>]
  /\ failedBefore = FALSE
  /\ located = <<>>
  /\ allBookmarks = [c \in Calls |-> NoBookmarks]
  /\ listed = <<>>

\* The server reads no Bookmarks file: the file is the one of the example.
Init ==
  /\ fs \in [Paths -> FsStates]
  /\ visits \in Stores
  /\ bookmarksData = ChromeBookmarks
  /\ InitServer

\* The profile directory changes on disk (the browser, the user).  Only
\* fs.access and the open of the store read the disk, so a change is taken
\* when such a read is pending: a change at any other moment shows as the
\* same change before the next read.
FsChange(p, d) ==
  /\ \E c \in Calls : pc[c] \in {"access", "opening"}
  /\ fs[p] # d
  /\ fs' = [fs EXCEPT ![p] = d]
  /\ UNCHANGED << visits, wrote, chromeProfilePath, historyDbPath, bookmarksPath, req, pc,
                  scan, statement, provider, handle, promise, outcomes, failedBefore,
                  located, bookmarksData, allBookmarks, listed >>

\* The same change while the server is idle: the disk changes between two
\* calls and stays as it is during a call.
FsChangeBetween(p, d) ==
  /\ AllIdle /\ ~MicrotaskPending
  /\ fs[p] # d
  /\ fs' = [fs EXCEPT ![p] = d]
  /\ UNCHANGED << visits, wrote, chromeProfilePath, historyDbPath, bookmarksPath, req, pc,
                  scan, statement, provider, handle, promise, outcomes, failedBefore,
                  located, bookmarksData, allBookmarks, listed >>

\* A CallTool request is read from the transport and its handler is scheduled.
Arrive(c, r) ==
  /\ FirstIdle(c)
  /\ req' = [req EXCEPT ![c] = r]
  /\ pc' = [pc EXCEPT ![c] = "entry"]
  /\ UNCHANGED << fs, visits, wrote, chromeProfilePath, historyDbPath, bookmarksPath, scan,
                  statement, provider, handle, promise, outcomes, failedBefore,
                  located, bookmarksData, allBookmarks, listed >>

\* A direct call of the exported locateChromeProfile(): it runs up to its
\* first fs.access, or throws at once when the platform has no candidate.
LocateCall(c) ==
  /\ AllIdle /\ ~MicrotaskPending
  /\ FirstIdle(c)
  /\ Len(located) < MaxLocates
  /\ req' = [req EXCEPT ![c] = LocateRequest]
  /\ IF NumPaths = 0
     THEN /\ pc' = [pc EXCEPT ![c] = "done"]
          /\ located' = Append(located, NotFound)
          /\ UNCHANGED scan
     ELSE /\ pc' = [pc EXCEPT ![c] = "access"]
          /\ scan' = [scan EXCEPT ![c] = [i |-> 1, stage |-> "dir", ok |-> FALSE]]
          /\ UNCHANGED located
  /\ UNCHANGED << fs, visits, wrote, chromeProfilePath, historyDbPath, bookmarksPath,
                  statement, provider, handle, promise, outcomes, failedBefore,
                  bookmarksData, allBookmarks, listed >>

\* A call of getBookmarks(): readBookmarks runs ensureInitialized, which
\* scans when no path is cached, and then reads the Bookmarks file.
getBookmarks(c) ==
  /\ AllIdle /\ ~MicrotaskPending
  /\ FirstIdle(c)
  /\ req' = [req EXCEPT ![c] = BookmarksRequest]
  /\ IF chromeProfilePath # 0
     THEN /\ pc' = [pc EXCEPT ![c] = "reading"]
          /\ UNCHANGED << scan, allBookmarks >>
     ELSE IF NumPaths = 0
     THEN /\ pc' = [pc EXCEPT ![c] = "done"]
          /\ allBookmarks' = [allBookmarks EXCEPT ![c] = Thrown(NotFoundMessage)]
          /\ UNCHANGED scan
     ELSE /\ pc' = [pc EXCEPT ![c] = "access"]
          /\ scan' = [scan EXCEPT ![c] = [i |-> 1, stage |-> "dir", ok |-> FALSE]]
          /\ UNCHANGED allBookmarks
  /\ UNCHANGED << fs, visits, wrote, chromeProfilePath, historyDbPath, bookmarksPath,
                  statement, provider, handle, promise, outcomes, failedBefore,
                  located, bookmarksData, listed >>

\* fs.readFile(bookmarksPath) completes: readBookmarks returns the parsed
\* file and getBookmarks flattens it, or readBookmarks throws.
readBookmarks(c) ==
  /\ pc[c] = "reading"
  /\ ~MicrotaskPending
  /\ \E readError \in BOOLEAN :
       allBookmarks' =
         [allBookmarks EXCEPT
            ![c] = IF ~HasBookmarks(fs[bookmarksPath.dir])
                   THEN Thrown("Chrome Bookmarks file not found")
                   ELSE IF readError THEN Thrown("Failed to read Chrome Bookmarks")
                   ELSE Returned(AllBookmarksOf(bookmarksData))]
  /\ pc' = [pc EXCEPT ![c] = "done"]
  /\ UNCHANGED << fs, visits, wrote, chromeProfilePath, historyDbPath, bookmarksPath, req,
                  scan, statement, provider, handle, promise, outcomes, failedBefore,
                  located, bookmarksData, listed >>

\* The ListTools handler: it returns the tools array; the response is kept
\* with whether a failure of the data provider came before it.
ListTools ==
  /\ AllIdle /\ ~MicrotaskPending
  /\ Len(listed) < MaxLists
  /\ listed' = Append(listed, [tools |-> ToolDescriptors, after |-> failedBefore])
  /\ UNCHANGED << fs, visits, wrote, chromeProfilePath, historyDbPath, bookmarksPath, req, pc,
                  scan, statement, provider, handle, promise, outcomes, failedBefore,
                  located, bookmarksData, allBookmarks >>

\* One request at a time: the next request is read when the last is answered.
CallTool(c, r) == AllIdle /\ ~MicrotaskPending /\ r \in Requests /\ Arrive(c, r)
\* Requests that overlap: the next request is read while others are in flight.
CallToolOverlapping(c, r) == r \in OverlapRequests /\ Arrive(c, r)

\* The handler starts: it runs up to its first await.  A provider call
\* enters queryHistory, whose ensureInitialized() scans for the profile
\* when none is cached (!chromeProfilePath).
Entry(c) ==
  /\ pc[c] = "entry"
  /\ LET h == CallToolSync(req[c].name, req[c].args)
     IN IF h.done
        THEN /\ outcomes' = [outcomes EXCEPT ![c] = Append(@, h.outcome)]
             /\ pc' = [pc EXCEPT ![c] = "done"]
             /\ UNCHANGED << scan, statement, provider, promise >>
        ELSE /\ statement' = [statement EXCEPT ![c] = h.stmt]
             /\ provider' = [provider EXCEPT ![c] = TRUE]
             /\ UNCHANGED outcomes
             /\ IF chromeProfilePath # 0
                THEN /\ pc' = [pc EXCEPT ![c] = "exec"]
                     /\ promise' = [promise EXCEPT ![c] = PendingPromise]
                     /\ UNCHANGED scan
                ELSE IF NumPaths = 0
                THEN /\ pc' = [pc EXCEPT ![c] = "done"]
                     /\ promise' = [promise EXCEPT
                                      ![c] = reject(PendingPromise, NotFoundMessage)]
                     /\ UNCHANGED scan
                ELSE /\ pc' = [pc EXCEPT ![c] = "access"]
                     /\ promise' = [promise EXCEPT ![c] = PendingPromise]
                     /\ scan' = [scan EXCEPT ![c] = [i |-> 1, stage |-> "dir", ok |-> FALSE]]
  /\ UNCHANGED << fs, visits, wrote, chromeProfilePath, historyDbPath, bookmarksPath, req,
                  handle, failedBefore,
                  located, bookmarksData, allBookmarks, listed >>

\* fs.access(path): the check is made on the disk as it is at that moment.
FsCheck(c) ==
  /\ pc[c] = "access"
  /\ LET d == fs[scan[c].i]
         ok == CASE scan[c].stage = "dir" -> DirAccessible(d)
                 [] scan[c].stage = "history" -> HasHistory(d)
                 [] scan[c].stage = "bookmarks" -> HasBookmarks(d)
     IN scan' = [scan EXCEPT ![c].ok = ok]
  /\ pc' = [pc EXCEPT ![c] = "accessed"]
  /\ UNCHANGED << fs, visits, wrote, chromeProfilePath, historyDbPath, bookmarksPath, req,
                  statement, provider, handle, promise, outcomes, failedBefore,
                  located, bookmarksData, allBookmarks, listed >>

\* locateChromeProfile continues after an fs.access: it caches and returns
\* the directory, tries the next file or the next directory, or throws.  It
\* returns to ensureInitialized (queryHistory goes on) or to its direct caller.
locateChromeProfile(c) ==
  /\ pc[c] = "accessed"
  /\ ~MicrotaskPending
  /\ LET i == scan[c].i
         stage == scan[c].stage
         found == scan[c].ok /\ stage \in {"history", "bookmarks"}
         nextStage == IF stage = "dir" /\ scan[c].ok THEN "history"
                      ELSE IF stage = "history" THEN "bookmarks"
                      ELSE "dir"
         nextPath == IF nextStage = "dir" THEN i + 1 ELSE i
     IN IF found
        THEN /\ chromeProfilePath' = i
             /\ historyDbPath' = PathJoin(i, "History")
             /\ bookmarksPath' = PathJoin(i, "Bookmarks")
             /\ pc' = [pc EXCEPT ![c] = IF DirectCall(c) THEN "done"
                                        ELSE IF BookmarksCall(c) THEN "reading"
                                        ELSE "exec"]
             /\ located' = IF DirectCall(c) THEN Append(located, i) ELSE located
             /\ scan' = [scan EXCEPT ![c] = NoScan]
             /\ UNCHANGED << promise, allBookmarks >>
        ELSE IF nextPath > NumPaths
        THEN /\ promise' = [promise EXCEPT
                              ![c] = IF DirectCall(c) \/ BookmarksCall(c) THEN @
                                     ELSE reject(@, NotFoundMessage)]
             /\ located' = IF DirectCall(c) THEN Append(located, NotFound) ELSE located
             /\ allBookmarks' = IF BookmarksCall(c)
                                THEN [allBookmarks EXCEPT ![c] = Thrown(NotFoundMessage)]
                                ELSE allBookmarks
             /\ pc' = [pc EXCEPT ![c] = "done"]
             /\ scan' = [scan EXCEPT ![c] = NoScan]
             /\ UNCHANGED << chromeProfilePath, historyDbPath, bookmarksPath >>
        ELSE /\ scan' = [scan EXCEPT ![c] = [i |-> nextPath, stage |-> nextStage,
                                             ok |-> FALSE]]
             /\ pc' = [pc EXCEPT ![c] = "access"]
             /\ UNCHANGED << promise, chromeProfilePath, historyDbPath, bookmarksPath,
                             located, allBookmarks >>
  /\ UNCHANGED << fs, visits, wrote, req, statement, provider, handle, outcomes,
                  failedBefore, bookmarksData, listed >>

\* queryHistory after ensureInitialized(): the promise executor opens the
\* store and queues the statement.
queryHistory(c) ==
  /\ pc[c] = "exec"
  /\ IF historyDbPath = NullPath
     THEN /\ promise' = [promise EXCEPT ![c] = reject(@, "History database path not found")]
          /\ pc' = [pc EXCEPT ![c] = "done"]
          /\ UNCHANGED handle
     ELSE /\ handle' = [handle EXCEPT ![c] = [path |-> historyDbPath, mode |-> OpenMode,
                                              st |-> "opening", cb |-> FALSE]]
          /\ pc' = [pc EXCEPT ![c] = "opening"]
          /\ UNCHANGED promise
  /\ UNCHANGED << fs, visits, wrote, chromeProfilePath, historyDbPath, bookmarksPath, req,
                  scan, statement, provider, outcomes, failedBefore,
                  located, bookmarksData, allBookmarks, listed >>

\* sqlite3 opens the file: a read-only open needs the file to exist; an open
\* with OPEN_CREATE creates a missing file in an accessible directory.
Opens(mode, d, ok) ==
  ok /\ (HasHistory(d) \/ (mode = OPEN_READWRITE_CREATE /\ DirAccessible(d)))

\* The callback of new sqlite3.Database(...): on an error it rejects.
OpenCallback(c) ==
  /\ pc[c] = "opening"
  /\ ~MicrotaskPending
  /\ \E ok \in BOOLEAN :
       LET dir == handle[c].path.dir
           opened == Opens(handle[c].mode, fs[dir], ok)
           created == opened /\ ~HasHistory(fs[dir])
       IN /\ fs' = IF created THEN [fs EXCEPT ![dir] = "history"] ELSE fs
          /\ wrote' = (wrote \/ created)
          /\ IF opened
             THEN /\ handle' = [handle EXCEPT ![c].st = "open"]
                  /\ pc' = [pc EXCEPT ![c] = "querying"]
                  /\ UNCHANGED promise
             ELSE /\ handle' = [handle EXCEPT ![c].st = "failed"]
                  /\ pc' = [pc EXCEPT ![c] = "openfailed"]
                  /\ promise' = [promise EXCEPT
                                   ![c] = reject(@, "Failed to open Chrome History database")]
  /\ UNCHANGED << visits, chromeProfilePath, historyDbPath, bookmarksPath, req, scan,
                  statement, provider, outcomes, failedBefore,
                  located, bookmarksData, allBookmarks, listed >>

\* The callback of db.all(query, params) on an open store: on an error it
\* requests the close and rejects; with the rows it requests the close and
\* leaves the resolve to the close callback.
AllCallback(c) ==
  /\ pc[c] = "querying"
  /\ ~MicrotaskPending
  /\ \E err \in BOOLEAN :
       IF err
       THEN /\ handle' = [handle EXCEPT ![c].st = "closing", ![c].cb = FALSE]
            /\ promise' = [promise EXCEPT ![c] = reject(@, "Database query failed")]
       ELSE /\ handle' = [handle EXCEPT ![c].st = "closing", ![c].cb = TRUE]
            /\ promise' = [promise EXCEPT ![c].rows = Execute(visits, statement[c])]
  /\ pc' = [pc EXCEPT ![c] = "closing"]
  /\ UNCHANGED << fs, visits, wrote, chromeProfilePath, historyDbPath, bookmarksPath, req,
                  scan, statement, provider, outcomes, failedBefore,
                  located, bookmarksData, allBookmarks, listed >>

\* The callback of db.all when the store failed to open, if the library
\* calls it: it reports an error; db.close() finds nothing to close and the
\* second reject does nothing.
AllCallbackUnopened(c) ==
  /\ pc[c] = "openfailed"
  /\ ~MicrotaskPending
  /\ promise' = [promise EXCEPT ![c] = reject(@, "Database query failed")]
  /\ pc' = [pc EXCEPT ![c] = "done"]
  /\ UNCHANGED << fs, visits, wrote, chromeProfilePath, historyDbPath, bookmarksPath, req,
                  scan, statement, provider, handle, outcomes, failedBefore,
                  located, bookmarksData, allBookmarks, listed >>

\* db.close completes; the callback passed with the rows resolves, also when
\* the close failed (closeErr is only logged).
CloseCallback(c) ==
  /\ pc[c] = "closing"
  /\ ~MicrotaskPending
  /\ \E closed \in BOOLEAN :
       handle' = [handle EXCEPT ![c].st = IF closed THEN "closed" ELSE "open"]
  /\ promise' = [promise EXCEPT
                   ![c] = IF handle[c].cb THEN resolve(@, @.rows) ELSE @]
  /\ pc' = [pc EXCEPT ![c] = "done"]
  /\ UNCHANGED << fs, visits, wrote, chromeProfilePath, historyDbPath, bookmarksPath, req,
                  scan, statement, provider, outcomes, failedBefore,
                  located, bookmarksData, allBookmarks, listed >>

\* The handler continues after its await and the response is sent.
Resume(c) ==
  /\ promise[c].jobs > 0
  /\ outcomes' = [outcomes EXCEPT
                    ![c] = Append(@, CallToolResume(req[c].name, req[c].args, promise[c]))]
  /\ promise' = [promise EXCEPT ![c].jobs = @ - 1]
  /\ UNCHANGED << fs, visits, wrote, chromeProfilePath, historyDbPath, bookmarksPath, req,
                  pc, scan, statement, provider, handle, failedBefore,
                  located, bookmarksData, allBookmarks, listed >>

\* Nothing of the call is left to run.
Quiescent(c) == pc[c] \in {"done", "openfailed"} /\ promise[c].jobs = 0

\* The request is over; its slot takes the next request.
Retire(c) ==
  /\ Quiescent(c)
  /\ ~MicrotaskPending
  /\ req' = [req EXCEPT ![c] = NoRequest]
  /\ pc' = [pc EXCEPT ![c] = "idle"]
  /\ scan' = [scan EXCEPT ![c] = NoScan]
  /\ statement' = [statement EXCEPT ![c] = NoStatement]
  /\ provider' = [provider EXCEPT ![c] = FALSE]
  /\ handle' = [handle EXCEPT ![c] = NoHandle]
  /\ promise' = [promise EXCEPT ![c] = NoPromise]
  /\ outcomes' = [outcomes EXCEPT ![c] = <<>>]
  /\ failedBefore' = (failedBefore \/ promise[c].st = "rejected")
  /\ allBookmarks' = [allBookmarks EXCEPT ![c] = NoBookmarks]
  /\ UNCHANGED << fs, visits, wrote, chromeProfilePath, historyDbPath, bookmarksPath,
                  located, bookmarksData, listed >>

Step(c) ==
  \/ Entry(c)
  \/ FsCheck(c)
  \/ locateChromeProfile(c)
  \/ queryHistory(c)
  \/ OpenCallback(c)
  \/ AllCallback(c)
  \/ AllCallbackUnopened(c)
  \/ CloseCallback(c)
  \/ Resume(c)
  \/ Retire(c)

Next ==
  \/ \E p \in Paths, d \in FsStates : FsChange(p, d)
  \/ \E c \in Calls, r \in Requests : CallTool(c, r)
  \/ \E c \in Calls : Step(c)

Spec == Init /\ [][Next]_vars

NextOverlap ==
  \/ \E p \in Paths, d \in FsStates : FsChange(p, d)
  \/ \E c \in Calls, r \in OverlapRequests : CallToolOverlapping(c, r)
  \/ \E c \in Calls : Step(c)

\* The overlapping requests run against the fullest store.
InitOverlap == Init /\ visits = VisitCandidates

SpecOverlap == InitOverlap /\ [][NextOverlap]_vars

\* The data provider used as a module: direct calls of locateChromeProfile
\* in sequence with tool calls that locate the profile by ensureInitialized,
\* the disk changing between the calls.
ProviderRequests ==
  { [name |-> "get_history_stats", args |-> EmptyArguments] }
NextProvider ==
  \/ \E p \in Paths, d \in FsStates : FsChangeBetween(p, d)
  \/ \E c \in Calls : LocateCall(c)
  \/ \E c \in Calls, r \in ProviderRequests : CallTool(c, r)
  \/ \E c \in Calls : Step(c)

SpecProvider == InitOverlap /\ [][NextProvider]_vars

\* The bookmark functions of the data provider, called in sequence on any
\* Bookmarks file of the model.
InitBookmarks ==
  /\ fs \in [Paths -> {"empty", "bookmarks"}]
  /\ visits = VisitCandidates
  /\ bookmarksData \in BookmarkFiles
  /\ InitServer
NextBookmarks ==
  \E c \in Calls :
    \/ getBookmarks(c)
    \/ FsCheck(c)
    \/ locateChromeProfile(c)
    \/ readBookmarks(c)
    \/ Retire(c)

SpecBookmarks == InitBookmarks /\ [][NextBookmarks]_vars

\* The two request handlers of the server: ListTools requests between
\* CallTool requests of every tool name, one request at a time.
ToolsRequests == PlainRequests
NextTools ==
  \/ ListTools
  \/ \E p \in Paths, d \in FsStates : FsChange(p, d)
  \/ \E c \in Calls, r \in ToolsRequests : CallTool(c, r)
  \/ \E c \in Calls : Step(c)

SpecTools == Init /\ [][NextTools]_vars

\* ================================================================ claims
TextOf(o) == o.content[1].text
IsToolResult(o) ==
  /\ o.kind = "result"
  /\ Len(o.content) >= 1
  /\ \A i \in DOMAIN o.content : o.content[i].type = "text"
ProviderTools == {"search_history", "get_recent_browsing", "get_history_stats"}
ErrorPrefixes ==
  {"Error searching history", "Error retrieving recent browsing activity",
   "Error getting history statistics"}
Started(c) == pc[c] \notin {"idle", "entry"}
ProviderUntouched(c) ==
  /\ ~provider[c]
  /\ statement[c] = NoStatement
  /\ scan[c] = NoScan
  /\ handle[c] = NoHandle
  /\ promise[c] = NoPromise

\* C1: a CallTool request whose name is not one of the six registered names
\* is answered by the MethodNotFound fault alone: no ToolResult is produced
\* and the data provider is not invoked.
C1_UnknownNameFaults ==
  \A c \in Calls :
    (Started(c) /\ req[c].name \notin RegisteredNames) =>
      /\ outcomes[c] = << Fault("MethodNotFound") >>
      /\ ProviderUntouched(c)
C1_Witness ==
  \E c \in Calls :
    req[c].name \in UnknownNames /\ pc[c] = "done" /\ Len(outcomes[c]) = 1

\* C2: a call of any registered tool with a mapping that omits every optional
\* argument is answered by a ToolResult (text blocks), never by a fault,
\* whatever the data provider does.
C2_MinimalArgumentsGiveResult ==
  \A c \in Calls :
    (req[c].name \in RegisteredNames /\ req[c].args = EmptyArguments) =>
      /\ \A i \in DOMAIN outcomes[c] : IsToolResult(outcomes[c][i])
      /\ Quiescent(c) => Len(outcomes[c]) = 1
C2_Witness ==
  \E c \in Calls :
    /\ req[c].name = "get_history_stats" /\ req[c].args = EmptyArguments
    /\ promise[c].st = "rejected" /\ promise[c].err = NotFoundMessage
    /\ Quiescent(c) /\ Len(outcomes[c]) = 1

\* C3: search_history with the query empty or absent and both dates absent
\* returns the "provide either a search query or a date range" result, and
\* the data provider (profile location, open, query) is not invoked.
NoQueryAndNoDates(a) ==
  /\ a.present
  /\ IsAbsent(a.query) \/ Get(a.query) = <<>>
  /\ IsAbsent(a.start_date)
  /\ IsAbsent(a.end_date)
C3_NoQueryNoDatesRejected ==
  \A c \in Calls :
    (Started(c) /\ req[c].name = "search_history" /\ NoQueryAndNoDates(req[c].args)) =>
      /\ outcomes[c] = << RequireQueryOrDates >>
      /\ ProviderUntouched(c)
C3_Witness ==
  \E c \in Calls :
    /\ req[c].name = "search_history" /\ NoQueryAndNoDates(req[c].args)
    /\ req[c].args.query = Some(<<>>)
    /\ pc[c] = "done" /\ Len(outcomes[c]) = 1

\* C4: a failure of the data provider in search_history, get_recent_browsing
\* or get_history_stats is caught by the handler: the call is answered by one
\* ordinary ToolResult whose text reports the error, never by a fault, and
\* once requests have failed the server still accepts every request.
C4_ProviderFailureReported ==
  /\ \A c \in Calls :
       promise[c].st = "rejected" =>
         /\ req[c].name \in ProviderTools
         /\ \A i \in DOMAIN outcomes[c] :
              /\ IsToolResult(outcomes[c][i])
              /\ TextOf(outcomes[c][i]).tag \in ErrorPrefixes
              /\ TextOf(outcomes[c][i]).message = promise[c].err
              /\ TextOf(outcomes[c][i]).entries = <<>>
         /\ Quiescent(c) => Len(outcomes[c]) = 1
  /\ (failedBefore /\ AllIdle) => \A r \in Requests : ENABLED CallTool(1, r)
C4_Witness ==
  /\ failedBefore
  /\ \E c \in Calls :
       /\ promise[c].st = "fulfilled" /\ Quiescent(c)
       /\ Len(outcomes[c]) = 1
       /\ TextOf(outcomes[c][1]).tag = "Recent browsing activity"
       /\ Len(TextOf(outcomes[c][1]).entries) > 0

\* C5: search_history given a start_date or end_date that is no valid date
\* string is answered by an error result, and the query is not executed.
HasInvalidDate(a) ==
  a.present /\ (a.start_date = Some(BadDate) \/ a.end_date = Some(BadDate))
C5_InvalidDateIsError ==
  \A c \in Calls :
    (req[c].name = "search_history" /\ HasInvalidDate(req[c].args)
       /\ outcomes[c] # <<>>) =>
      /\ TextOf(outcomes[c][1]).tag \in ErrorPrefixes \cup {"Error"}
      /\ promise[c].st # "fulfilled"

\* C6: every handle on the history store is opened read-only, and the server
\* never writes to the store or the profile.
C6_StoreOpenedReadOnly ==
  /\ ~wrote
  /\ \A c \in Calls : handle[c].st # "none" => handle[c].mode = OPEN_READONLY
C6_Witness ==
  \E c \in Calls :
    handle[c].st = "closing" /\ handle[c].cb /\ Len(promise[c].rows) > 0

\* C7: when a tool call returns its result, no store handle opened by it is
\* still open: queryHistory closes the handle on every exit path before it
\* settles.
C7_HandleClosedAtReturn ==
  \A c \in Calls :
    outcomes[c] # <<>> => handle[c].st \in {"none", "failed", "closed"}

\* C8: every CallTool request yields exactly one outcome, never two and,
\* once nothing of the call is left to run, not zero; also when both the
\* open callback and the query callback report an error.
C8_ExactlyOneOutcome ==
  \A c \in Calls :
    /\ Len(outcomes[c]) <= 1
    /\ Quiescent(c) => Len(outcomes[c]) = 1
C8_Witness ==
  \E c \in Calls :
    handle[c].st = "failed" /\ pc[c] = "done" /\ Quiescent(c) /\ Len(outcomes[c]) = 1

\* C9: the lower bound get_recent_browsing passes to the store is never
\* earlier than now minus the declared maximum of 168 hours.
C9_HoursBoundEnforced ==
  \A c \in Calls :
    statement[c].kind = "recent" =>
      statement[c].since >= ChromeTimestamp(DateNow - (SchemaMaxHours * MsPerHour))

\* The entries of a get_recent_browsing result are distinct visit records at
\* or after now minus h hours, each reported with its own visit time.
EntriesAreVisitsSince(entries, h) ==
  LET qualifying ==
        {v \in visits : v.visit_time >= ChromeTimestamp(DateNow - (h * MsPerHour))}
  IN \E f \in [DOMAIN entries -> qualifying] :
       /\ \A i, j \in DOMAIN entries : f[i] = f[j] => i = j
       /\ \A i \in DOMAIN entries :
            /\ entries[i].last_visit_date = SqlDatetime(f[i].visit_time)
            /\ entries[i].url = UrlTable[f[i].url].url
RecentAnswered(c) ==
  /\ req[c].name = "get_recent_browsing"
  /\ promise[c].st = "fulfilled"
  /\ outcomes[c] # <<>>

SearchAnswered(c) ==
  /\ req[c].name = "search_history"
  /\ promise[c].st = "fulfilled"
  /\ outcomes[c] # <<>>

\* C11: search_history returns at most limit entries, where limit is 50 when
\* the caller omits it, and the text carries the truncation notice whenever
\* the number of returned entries equals that limit (checked for calls that
\* omit the limit or give a positive one).
C11_AtMostLimitFiftyByDefault ==
  \A c \in Calls :
    (SearchAnswered(c)
       /\ (IsAbsent(req[c].args.limit) \/ Get(req[c].args.limit) > 0)) =>
      LET limit == IF IsAbsent(req[c].args.limit) THEN SchemaSearchLimit
                   ELSE Get(req[c].args.limit)
          text == TextOf(outcomes[c][1])
      IN /\ Len(text.entries) <= limit
         /\ Len(text.entries) = limit => text.limited

\* C12: of two calls of locateChromeProfile in sequence, the second returns
\* the path the first returned and makes no file-system check, also when the
\* disk changed between the calls.
C12_SecondLocateUsesCache ==
  /\ \A i \in 1..(Len(located) - 1) :
       located[i] # NotFound => located[i + 1] = located[i]
  /\ \A c \in Calls :
       (DirectCall(c) /\ located # <<>> /\ located[Len(located)] # NotFound) =>
         pc[c] \notin {"access", "accessed"}

\* The cached paths belong together: they are all unset, or the History and
\* Bookmarks paths are those of the cached profile directory.
CacheConsistent ==
  IF chromeProfilePath = 0
  THEN historyDbPath = NullPath /\ bookmarksPath = NullPath
  ELSE /\ chromeProfilePath \in Paths
       /\ historyDbPath = [dir |-> chromeProfilePath, file |-> "History"]
       /\ bookmarksPath = [dir |-> chromeProfilePath, file |-> "Bookmarks"]
\* A call that opens the store in this step opens the History store of the
\* profile directory that discovery returned and cached.
OpensDiscovered(c) ==
  (handle[c].st = "none" /\ handle'[c].st # "none") =>
    /\ chromeProfilePath # 0
    /\ handle'[c].path = [dir |-> chromeProfilePath, file |-> "History"]

\* C13: when tool calls overlap and run profile discovery together, in every
\* interleaving the cached paths stay consistent with each other, and each
\* call opens the History store of a directory that discovery returned.
C13_OverlapKeepsCacheConsistent ==
  [][CacheConsistent' /\ \A c \in Calls : OpensDiscovered(c)]_vars
\* Two overlapping calls both ran discovery, with different results.
C13_Witness ==
  \E c, d \in Calls :
    /\ handle[c].st # "none" /\ handle[d].st # "none"
    /\ handle[c].path.dir # handle[d].path.dir
    /\ chromeProfilePath = handle[d].path.dir

\* The candidate directories that are accessible and hold a History store or
\* a Bookmarks file, as the disk is.
ValidProfiles == {p \in Paths : fs[p] \in {"bookmarks", "history"}}
\* The step of call c in which its profile discovery ends.
DiscoveryEnds(c) == pc[c] = "accessed" /\ pc'[c] \in {"exec", "done"}
CachedPaths == << chromeProfilePath, historyDbPath, bookmarksPath >>
DiscoveryResult(c) ==
  IF ValidProfiles = {}
  THEN \* it fails with the not-found error and caches nothing
       /\ UNCHANGED CachedPaths
       /\ IF DirectCall(c) THEN located' = Append(located, NotFound)
          ELSE /\ chromeProfilePath' = 0
               /\ promise'[c].st = "rejected" /\ promise'[c].err = NotFoundMessage
  ELSE \* it returns and caches the first valid candidate
       LET first == SetMin(ValidProfiles)
       IN /\ chromeProfilePath' = first
          /\ historyDbPath' = [dir |-> first, file |-> "History"]
          /\ bookmarksPath' = [dir |-> first, file |-> "Bookmarks"]
          /\ IF DirectCall(c) THEN located' = Append(located, first)
             ELSE pc'[c] = "exec" /\ promise'[c].st = "pending"
\* A tool call that reaches the data provider with no cached path scans.
ScansWhenUnset(c) ==
  (pc[c] = "entry" /\ provider'[c] /\ chromeProfilePath = 0) => pc'[c] = "access"

RECURSIVE UrlPositions(_)
UrlPositions(children) ==
  UNION { IF children[i].type = "url" THEN {<< i >>}
          ELSE IF children[i].type = "folder" /\ ~IsAbsent(children[i].children)
          THEN {<< i >> \o q : q \in UrlPositions(Get(children[i].children))}
          ELSE {} : i \in DOMAIN children }
\* The url leaves of the file: the index of the root, then the position
\* below the root.
FilePositions(data) ==
  IF IsAbsent(data.roots) THEN {}
  ELSE LET roots == Get(data.roots)
       IN UNION { IF IsAbsent(roots[r].data.children) THEN {}
                  ELSE {<< r >> \o q : q \in UrlPositions(Get(roots[r].data.children))} :
                  r \in DOMAIN roots }
\* Depth-first order with children in stored order: the lexicographic order
\* of the positions.
RECURSIVE Before(_, _)
Before(q1, q2) ==
  /\ q1 # <<>> /\ q2 # <<>>
  /\ \/ Head(q1) < Head(q2)
     \/ Head(q1) = Head(q2) /\ Before(Tail(q1), Tail(q2))
\* The names of the folders that enclose the leaf at position q, and the leaf.
RECURSIVE EnclosingNames(_, _)
EnclosingNames(children, q) ==
  IF Len(q) = 1 THEN <<>>
  ELSE << children[Head(q)].name >>
       \o EnclosingNames(Get(children[Head(q)].children), Tail(q))
RECURSIVE LeafAt(_, _)
LeafAt(children, q) ==
  IF Len(q) = 1 THEN children[Head(q)]
  ELSE LeafAt(Get(children[Head(q)].children), Tail(q))
RECURSIVE JoinSlash(_)
JoinSlash(names) ==
  IF Len(names) = 1 THEN names[1] ELSE names[1] \o "/" \o JoinSlash(Tail(names))
\* The list holds one record per url leaf of the file, in depth-first order,
\* each with the root name and the enclosing folder names as its folder.
FlattensFile(list, data) ==
  LET positions == FilePositions(data)
      rank(q) == 1 + Cardinality({o \in positions : Before(o, q)})
  IN /\ Len(list) = Cardinality(positions)
     /\ \A q \in positions :
          LET root == Get(data.roots)[Head(q)]
              below == Get(root.data.children)
              leaf == LeafAt(below, Tail(q))
              record == list[rank(q)]
          IN /\ record.title = leaf.name
             /\ record.url = leaf.url
             /\ record.folder
                  = JoinSlash(<< root.name >> \o EnclosingNames(below, Tail(q)))

\* C15: getBookmarks returns exactly one record per url leaf of the tree, in
\* depth-first order with children in stored order; the folder of a record
\* is the root name and the names of all enclosing folders joined by "/",
\* and folders give no record.  A url X in the folder Work of bookmark_bar
\* gives the one record with folder "bookmark_bar/Work".
C15_FlattensDepthFirst ==
  \A c \in Calls :
    allBookmarks[c].st = "returned" =>
      /\ FlattensFile(allBookmarks[c].list, bookmarksData)
      /\ bookmarksData = ChromeBookmarks =>
           /\ Len(allBookmarks[c].list) = 1
           /\ allBookmarks[c].list[1].folder = "bookmark_bar/Work"
           /\ allBookmarks[c].list[1].title = "X"
           /\ allBookmarks[c].list[1].url = "http://x"
\* A leaf two folders down comes before a later leaf of the bookmark bar,
\* and the leaf of the second root comes last.
C15_Witness ==
  \E c \in Calls :
    /\ allBookmarks[c].st = "returned"
    /\ Len(allBookmarks[c].list) = 3
    /\ allBookmarks[c].list[1].folder = "bookmark_bar/Work/Work"
    /\ allBookmarks[c].list[2].folder = "bookmark_bar"
    /\ allBookmarks[c].list[3].folder = "other"

\* C16: on a store without a URL row of visit_count > 0, getHistoryStats
\* returns total_urls = 0 with earliest and latest visit null, and the
\* get_history_stats tool answers with the statistics built from them, not
\* with an error.
C16_EmptyStoreStatsReported ==
  \A c \in Calls :
    (req[c].name = "get_history_stats" /\ visits = {}
       /\ promise[c].st = "fulfilled" /\ outcomes[c] # <<>>) =>
      /\ promise[c].rows[1].total_urls = 0
      /\ IsAbsent(promise[c].rows[1].earliest_visit)
      /\ IsAbsent(promise[c].rows[1].latest_visit)
      /\ TextOf(outcomes[c][1]).tag = "Chrome History Database Statistics"
      /\ TextOf(outcomes[c][1]).entries = << promise[c].rows[1] >>

\* The names ListTools lists.
ListedNames(tools) == {tools[i].name : i \in DOMAIN tools}

\* C17: every ListTools response is the same ordered sequence of six tool
\* descriptors with pairwise distinct names, before and after CallTool
\* requests that succeeded, failed or faulted; and the listed names are
\* exactly the names CallTool accepts without the MethodNotFound fault.
C17_ListToolsStable ==
  /\ \A i \in DOMAIN listed :
       /\ listed[i].tools = listed[1].tools
       /\ Len(listed[i].tools) = 6
       /\ \A j, k \in DOMAIN listed[i].tools :
            listed[i].tools[j].name = listed[i].tools[k].name => j = k
       /\ \A c \in Calls :
            Started(c) =>
              (outcomes[c] = << Fault("MethodNotFound") >>
                 <=> req[c].name \notin ListedNames(listed[i].tools))
\* Two responses with a failure of the data provider between them, and a
\* call of an unlisted name just answered.
C17_Witness ==
  /\ Len(listed) = 2
  /\ ~listed[1].after /\ listed[2].after
  /\ \E c \in Calls : req[c].name \in UnknownNames /\ outcomes[c] # <<>>

\* C18: every statement search_history passes to the store carries a text
\* filter on URL and title or at least one date bound, whatever the
\* arguments are (a query of white space only and no dates included).
C18_SearchAlwaysConstrained ==
  \A c \in Calls :
    statement[c].kind = "search" =>
      \/ ~IsAbsent(statement[c].like)
      \/ ~IsAbsent(statement[c].start)
      \/ ~IsAbsent(statement[c].end)

====
